---- MODULE Spec2Model ----
(***************************************************************************)
(* A model of pybaseball.datasources: the Ourlads depth-chart scraper      *)
(* (ourlads.py) and the nflverse DuckDB connection wrapper (nflverse.py).  *)
(*                                                                         *)
(* Python strings are sequences of one-character strings, so that the      *)
(* regular expressions, str.strip, str.upper, str.split and the f-strings  *)
(* of the source are computed character by character.  A missing value     *)
(* (pandas NaN / Python None) is the one-element sequence <<"NaN">>, which *)
(* no character sequence equals.                                           *)
(***************************************************************************)
EXTENDS Integers, Sequences, FiniteSets, TLC

VARIABLES
    pc,            \* position of the operation under study
    raw,           \* _clean_name: the string handed to the cleaner
    cleaned,       \* _clean_name: the sequence of values returned so far
    row_pos,       \* _map_pos: the position label argument
    slot_idx,      \* _map_pos: the slot index argument
    position,      \* _map_pos: the returned code
    team,          \* ourlads_scrape_team: the team argument
    page,          \* ourlads_scrape_team: what requests.get / read_html yield
    scraped,       \* ourlads_scrape_team: the outcome of the call
    df,            \* section splitter: the frame with its Pos column
    offense_df,    \* section splitter: the offensive block kept
    teams,         \* read_starters_ourlads: the teams argument
    fetched,       \* read_starters_ourlads: teams requested so far, in order
    frames,        \* read_starters_ourlads: the per-team frames collected
    out,           \* read_starters_ourlads: the concatenated frame
    override,      \* read_starters_ourlads: the override file as read
    result,        \* read_starters_ourlads: the returned frame
    env,           \* nflverse: duckdb presence, disk contents, open outcome
    call,          \* nflverse: arguments of connect / nflverse_connection
    conn           \* nflverse: connections opened/closed, body, exception

varsClean == <<raw, cleaned>>
varsMap == <<row_pos, slot_idx, position>>
varsScrape == <<team, page, scraped>>
varsSplit == <<df, offense_df>>
varsRead == <<teams, fetched, frames, out, override, result>>
varsConn == <<env, call, conn>>
vars == <<pc, varsClean, varsMap, varsScrape, varsSplit, varsRead, varsConn>>

----------------------------------------------------------------------------
(* Characters and strings *)

NaN == <<"NaN">>

LowerAlpha == <<"a","b","c","d","e","f","g","h","i","j","k","l","m",
                "n","o","p","q","r","s","t","u","v","w","x","y","z">>
UpperAlpha == <<"A","B","C","D","E","F","G","H","I","J","K","L","M",
                "N","O","P","Q","R","S","T","U","V","W","X","Y","Z">>
DigitChars == {"0","1","2","3","4","5","6","7","8","9"}

Range(f) == {f[i] : i \in DOMAIN f}

\* \s of the re module, over the characters the model uses
IsSpace(c) == c = " "
\* \d
IsDigit(c) == c \in DigitChars
\* \w
IsWord(c) == c \in Range(LowerAlpha) \cup Range(UpperAlpha) \cup DigitChars \cup {"_"}

\* str.upper / str.lower on one character
UpperChar(c) ==
    IF \E i \in DOMAIN LowerAlpha : LowerAlpha[i] = c
    THEN UpperAlpha[CHOOSE i \in DOMAIN LowerAlpha : LowerAlpha[i] = c]
    ELSE c
LowerChar(c) ==
    IF \E i \in DOMAIN UpperAlpha : UpperAlpha[i] = c
    THEN LowerAlpha[CHOOSE i \in DOMAIN UpperAlpha : UpperAlpha[i] = c]
    ELSE c

\* str.upper(), str.lower()
Upper(s) == [i \in DOMAIN s |-> UpperChar(s[i])]
Lower(s) == [i \in DOMAIN s |-> LowerChar(s[i])]

\* s[i-1:] and s[:i] of Python, 1-based here
Suffix(s, i) == SubSeq(s, i, Len(s))
Prefix(s, n) == SubSeq(s, 1, n)

\* str.startswith
StartsWith(s, p) == Len(s) >= Len(p) /\ Prefix(s, Len(p)) = p

\* "p in s" for strings
Contains(s, p) == \E i \in 1..(Len(s) - Len(p) + 1) : SubSeq(s, i, i + Len(p) - 1) = p

\* str.strip(): leading and trailing whitespace removed
Strip(s) ==
    IF \A i \in DOMAIN s : IsSpace(s[i]) THEN <<>>
    ELSE LET a == CHOOSE i \in DOMAIN s :
                      ~IsSpace(s[i]) /\ \A k \in 1..(i-1) : IsSpace(s[k])
             b == CHOOSE i \in DOMAIN s :
                      ~IsSpace(s[i]) /\ \A k \in (i+1)..Len(s) : IsSpace(s[k])
         IN  SubSeq(s, a, b)

\* Least element of a non-empty set of integers
Min(S) == CHOOSE x \in S : \A y \in S : x <= y

----------------------------------------------------------------------------
(* _clean_name *)

\* re.sub(r"\s*\d+\w*$", "", raw): the pattern matches at i when s[i..] is
\* whitespace, then at least one digit, then word characters up to the end.
TrailingNumberAt(s, i) ==
    \E j \in i..Len(s) :
        /\ \A k \in i..(j-1) : IsSpace(s[k])
        /\ IsDigit(s[j])
        /\ \A k \in j..Len(s) : IsWord(s[k])

StripTrailingNumber(s) ==
    LET starts == {i \in DOMAIN s : TrailingNumberAt(s, i)}
    IN  IF starts = {} THEN s ELSE Prefix(s, Min(starts) - 1)

\* r"\s*\(.*?\)" matches at i when s[i..] is whitespace, "(", then a ")" later
ParenAt(s, i) ==
    \E j \in i..Len(s) :
        /\ \A k \in i..(j-1) : IsSpace(s[k])
        /\ s[j] = "("
        /\ \E m \in (j+1)..Len(s) : s[m] = ")"

\* the last index of the (lazy) match of r"\s*\(.*?\)" that starts at i
ParenEnd(s, i) ==
    LET j == Min({x \in i..Len(s) : s[x] = "("})
    IN  Min({m \in (j+1)..Len(s) : s[m] = ")"})

\* re.sub(r"\s*\(.*?\)", "", cleaned): every non-overlapping match, left to right
RECURSIVE RemoveParens(_)
RemoveParens(s) ==
    LET starts == {i \in DOMAIN s : ParenAt(s, i)}
    IN  IF starts = {} THEN s
        ELSE LET i == Min(starts)
             IN  Prefix(s, i - 1) \o RemoveParens(Suffix(s, ParenEnd(s, i) + 1))

\* re.sub(r"\s{2,}", " ", cleaned): each run of two or more whitespace -> " "
RECURSIVE CollapseSpaces(_)
CollapseSpaces(s) ==
    IF s = <<>> THEN <<>>
    ELSE IF Len(s) >= 2 /\ IsSpace(s[1]) /\ IsSpace(s[2])
         THEN LET rest == {i \in DOMAIN s : ~IsSpace(s[i])}
              IN  IF rest = {} THEN <<" ">>
                  ELSE <<" ">> \o CollapseSpaces(Suffix(s, Min(rest)))
         ELSE <<s[1]>> \o CollapseSpaces(Tail(s))

\* cleaned.split(",", 1) when "," in cleaned, each part stripped, then
\* f"{parts[1]} {parts[0]}".strip()
ReorderComma(s) ==
    IF \E i \in DOMAIN s : s[i] = ","
    THEN LET c == Min({i \in DOMAIN s : s[i] = ","})
             last == Strip(Prefix(s, c - 1))
             first == Strip(Suffix(s, c + 1))
         IN  Strip(first \o <<" ">> \o last)
    ELSE s

_clean_name(s) ==
    CollapseSpaces(ReorderComma(Strip(RemoveParens(StripTrailingNumber(s)))))

----------------------------------------------------------------------------
(* String literals of ourlads.py *)

Str_Pos == <<"P","o","s">>
Str_nan == <<"n","a","n">>
Str_Unnamed == <<"U","n","n","a","m","e","d",":">>
Str_no == <<"n","o">>
Str_player == <<"p","l","a","y","e","r">>
Str_OFFENSE == <<"O","F","F","E","N","S","E">>
Str_DEFENSE == <<"D","E","F","E","N","S","E">>
Str_offense == <<"o","f","f","e","n","s","e">>
Str_defense == <<"d","e","f","e","n","s","e">>
Str_special == <<"s","p","e","c","i","a","l">>
ACT == <<"A","C","T">>
QB == <<"Q","B">>
RB == <<"R","B">>
FB == <<"F","B">>
TE == <<"T","E">>
WR == <<"W","R">>
LWR == <<"L","W","R">>
RWR == <<"R","W","R">>
SWR == <<"S","W","R">>
WR_SLOT == <<"W","R","-","S","L","O","T">>
SLOT == <<"S","L","O","T">>
RB1 == <<"R","B","1">>
RB2 == <<"R","B","2">>
TE1 == <<"T","E","1">>
TE2 == <<"T","E","2">>
WR1 == <<"W","R","1">>
WR2 == <<"W","R","2">>
WR3 == <<"W","R","3">>
WR4 == <<"W","R","4">>
WR5 == <<"W","R","5">>

_COLUMNS == <<"team", "position", "player", "status">>

\* pd.DataFrame(columns=_COLUMNS): the four columns and no rows.  A frame is
\* its column names and its rows, each row a record over the columns.
_empty_result == [columns |-> _COLUMNS, rows |-> <<>>]

\* f"https://www.ourlads.com/nfldepthcharts/pfdepthchart/{team}": the fixed
\* prefix followed by the team identifier
_ourlads_url(t) == <<"https://www.ourlads.com/nfldepthcharts/pfdepthchart/", t>>

----------------------------------------------------------------------------
(* _map_pos.  Optional[int] is a set of at most one integer: {} is None. *)

None == {}
Some(n) == {n}
TheInt(opt) == CHOOSE n \in opt : TRUE

\* _map_pos with the running-back and tight-end depth capped at two slots and
\* the wide-receiver lookup read from slot 0: what an off-by-one would do
_map_pos_capped(rp, slot) ==
    IF slot = None THEN NaN
    ELSE LET u == Upper(rp)
             n == TheInt(slot)
             lookup == <<WR1, WR2, WR3, WR4, WR5>>
         IN  IF u \in {QB, RB, FB, TE}
             THEN IF u = RB THEN (IF n = 1 THEN RB1 ELSE IF n = 2 THEN RB2 ELSE NaN)
                  ELSE IF u = TE THEN (IF n = 1 THEN TE1 ELSE IF n = 2 THEN TE2 ELSE NaN)
                  ELSE u
             ELSE IF u \in {WR, LWR, RWR, SWR, WR_SLOT, SLOT}
                  THEN IF u \in {SWR, WR_SLOT, SLOT}
                       THEN (IF n = 1 THEN SLOT ELSE NaN)
                       ELSE IF 1 <= n /\ n < Len(lookup) THEN lookup[n + 1] ELSE NaN
                  ELSE NaN

_map_pos(rp, slot) ==
    IF slot = None THEN NaN
    ELSE LET u == Upper(rp)
             n == TheInt(slot)
             lookup == <<WR1, WR2, WR3, WR4, WR5>>
         IN  IF u \in {QB, RB, FB, TE}
             THEN IF u = RB THEN (IF n = 1 THEN RB1 ELSE RB2)
                  ELSE IF u = TE THEN (IF n = 1 THEN TE1 ELSE TE2)
                  ELSE u
             ELSE IF u \in {WR, LWR, RWR, SWR, WR_SLOT, SLOT}
                  THEN IF u \in {SWR, WR_SLOT, SLOT}
                       THEN (IF n = 1 THEN SLOT ELSE NaN)
                       ELSE IF 1 <= n /\ n <= Len(lookup) THEN lookup[n] ELSE NaN
                  ELSE NaN

----------------------------------------------------------------------------
(* Sequence helpers standing for the pandas operations of ourlads.py *)

\* the elements of s at the positions in keep, in order (a boolean mask)
RECURSIVE SelectSeqIdx(_, _)
SelectSeqIdx(s, keep) ==
    IF s = <<>> THEN <<>>
    ELSE (IF 1 \in keep THEN <<s[1]>> ELSE <<>>)
         \o SelectSeqIdx(Tail(s), {i - 1 : i \in keep \ {1}})

\* the concatenation of a sequence of sequences
RECURSIVE Flatten(_)
Flatten(ss) == IF ss = <<>> THEN <<>> ELSE ss[1] \o Flatten(Tail(ss))

\* sep.join(parts)
RECURSIVE Join(_, _)
Join(parts, sep) ==
    IF parts = <<>> THEN <<>>
    ELSE IF Len(parts) = 1 THEN parts[1]
    ELSE parts[1] \o sep \o Join(Tail(parts), sep)

\* str(value) of a cell: a missing value prints as "nan"
Str(v) == IF v = NaN THEN Str_nan ELSE v

----------------------------------------------------------------------------
(* _flatten_columns.  A header is [tuple |-> BOOLEAN, parts |-> levels]; a  *)
(* header that is not a tuple has one level, its name.                      *)

FlattenOne(col) ==
    IF col.tuple
    THEN LET keep == {i \in DOMAIN col.parts :
                         /\ Strip(Str(col.parts[i])) \notin {<<>>, Str_nan}
                         /\ ~StartsWith(Str(col.parts[i]), Str_Unnamed)}
             parts == SelectSeqIdx([i \in DOMAIN col.parts |-> Strip(Str(col.parts[i]))], keep)
         IN  Strip(Join(parts, <<" ">>))
    ELSE Strip(Str(col.parts[1]))

_flatten_columns(columns) == [i \in DOMAIN columns |-> FlattenOne(columns[i])]

\* _PLAYER_COLUMN_PATTERN.match(col): r"^(?:No\s*)?Player", re.IGNORECASE
PlayerColumnMatch(col) ==
    LET l == Lower(col)
    IN  \/ StartsWith(l, Str_player)
        \/ /\ StartsWith(l, Str_no)
           /\ LET rest == Suffix(l, Len(Str_no) + 1)
                  nonsp == {i \in DOMAIN rest : ~IsSpace(rest[i])}
              IN  nonsp # {} /\ StartsWith(Suffix(rest, Min(nonsp)), Str_player)

----------------------------------------------------------------------------
(* The section splitter of ourlads_scrape_team.  The frame d is a sequence  *)
(* of rows [idx, Pos, cells]: the index label, the position label and the   *)
(* cells of the kept player columns.                                        *)

\* the index label of the first row whose upper-cased Pos equals marker
FirstMarker(d, marker) ==
    d[Min({i \in DOMAIN d : Upper(d[i].Pos) = marker})].idx

HasMarker(d, marker) == \E i \in DOMAIN d : Upper(d[i].Pos) = marker

\* d.loc[a : b] on the default integer index: the labels a..b, both ends kept
Loc(d, a, b) == SelectSeqIdx(d, {i \in DOMAIN d : a <= d[i].idx /\ d[i].idx <= b})

\* the if/else that slices offense_df out of d
OffenseSlice(d) ==
    IF HasMarker(d, Str_OFFENSE)
    THEN LET start_idx == FirstMarker(d, Str_OFFENSE)
             end_idx == IF HasMarker(d, Str_DEFENSE)
                        THEN FirstMarker(d, Str_DEFENSE)
                        ELSE d[Len(d)].idx + 1
         IN  Loc(d, start_idx + 1, end_idx - 1)
    ELSE IF HasMarker(d, Str_DEFENSE)
         THEN LET end_idx == FirstMarker(d, Str_DEFENSE)
              IN  Loc(d, d[1].idx, end_idx - 1)
         ELSE d

\* Pos.str.contains("Offense|Defense|Special", case=False)
SectionLabel(p) ==
    LET l == Lower(p)
    IN  Contains(l, Str_offense) \/ Contains(l, Str_defense) \/ Contains(l, Str_special)

\* the two row filters that follow the slice
DropSectionRows(odf) ==
    LET nonblank == SelectSeqIdx(odf, {i \in DOMAIN odf : Strip(Str(odf[i].Pos)) # <<>>})
    IN  SelectSeqIdx(nonblank, {i \in DOMAIN nonblank : ~SectionLabel(nonblank[i].Pos)})

OffenseBlock(d) == DropSectionRows(OffenseSlice(d))

----------------------------------------------------------------------------
(* ourlads_scrape_team.  A page is what the network and the HTML parser     *)
(* give for one GET:                                                        *)
(*   error   the exception requests.get raises, or "none"                   *)
(*   status  the HTTP status code of the response                           *)
(*   parse   "ok", or the exception pd.read_html raises                     *)
(*   tables  the list pd.read_html returns, each table [columns, rows]      *)

\* The exception classes and their direct base classes: the built-in classes
\* of Python, asyncio's CancelledError, json.JSONDecodeError, urllib3's
\* HTTPError, the classes of requests.exceptions (RequestException to
\* UnrewindableBodyError; ConnectionError, Timeout, HTTPError and
\* JSONDecodeError unqualified are those of requests), pandas' EmptyDataError
\* and ParserError, the classes of duckdb (Error to ConnectionException) and
\* NFLverseConnectionError.  A name outside ExceptionClasses has no bases here.
Bases(c) ==
    CASE c \in {"ArithmeticError", "AssertionError", "AttributeError",
                "BufferError", "EOFError", "ImportError", "LookupError",
                "MemoryError", "NameError", "OSError", "ReferenceError",
                "RuntimeError", "StopAsyncIteration", "StopIteration",
                "SyntaxError", "SystemError", "TypeError", "ValueError",
                "Warning", "urllib3.HTTPError", "Error"} ->
             {"Exception"}
      [] c \in {"BaseException"} ->
             {}
      [] c \in {"BaseExceptionGroup", "Exception", "GeneratorExit",
                "KeyboardInterrupt", "SystemExit", "CancelledError"} ->
             {"BaseException"}
      [] c \in {"BlockingIOError", "ChildProcessError",
                "builtins.ConnectionError", "FileExistsError",
                "FileNotFoundError", "InterruptedError", "IsADirectoryError",
                "NotADirectoryError", "PermissionError",
                "ProcessLookupError", "TimeoutError", "RequestException"} ->
             {"OSError"}
      [] c \in {"BrokenPipeError", "ConnectionAbortedError",
                "ConnectionRefusedError", "ConnectionResetError"} ->
             {"builtins.ConnectionError"}
      [] c \in {"BytesWarning", "DeprecationWarning", "EncodingWarning",
                "FutureWarning", "ImportWarning",
                "PendingDeprecationWarning", "ResourceWarning",
                "RuntimeWarning", "SyntaxWarning", "UnicodeWarning",
                "UserWarning"} ->
             {"Warning"}
      [] c \in {"ExceptionGroup"} ->
             {"BaseExceptionGroup", "Exception"}
      [] c \in {"FloatingPointError", "OverflowError", "ZeroDivisionError"} ->
             {"ArithmeticError"}
      [] c \in {"IndentationError"} ->
             {"SyntaxError"}
      [] c \in {"IndexError", "KeyError"} ->
             {"LookupError"}
      [] c \in {"ModuleNotFoundError"} ->
             {"ImportError"}
      [] c \in {"NotImplementedError", "RecursionError",
                "NFLverseConnectionError"} ->
             {"RuntimeError"}
      [] c \in {"TabError"} ->
             {"IndentationError"}
      [] c \in {"UnboundLocalError"} ->
             {"NameError"}
      [] c \in {"UnicodeDecodeError", "UnicodeEncodeError",
                "UnicodeTranslateError"} ->
             {"UnicodeError"}
      [] c \in {"UnicodeError", "json.JSONDecodeError", "EmptyDataError",
                "ParserError"} ->
             {"ValueError"}
      [] c \in {"InvalidJSONError", "HTTPError", "ConnectionError",
                "Timeout", "URLRequired", "TooManyRedirects",
                "ChunkedEncodingError", "RetryError", "UnrewindableBodyError"} ->
             {"RequestException"}
      [] c \in {"JSONDecodeError"} ->
             {"InvalidJSONError", "json.JSONDecodeError"}
      [] c \in {"ProxyError", "SSLError"} ->
             {"ConnectionError"}
      [] c \in {"ConnectTimeout"} ->
             {"ConnectionError", "Timeout"}
      [] c \in {"ReadTimeout"} ->
             {"Timeout"}
      [] c \in {"MissingSchema", "InvalidSchema", "InvalidURL",
                "InvalidHeader"} ->
             {"RequestException", "ValueError"}
      [] c \in {"InvalidProxyURL"} ->
             {"InvalidURL"}
      [] c \in {"ContentDecodingError"} ->
             {"RequestException", "urllib3.HTTPError"}
      [] c \in {"StreamConsumedError"} ->
             {"RequestException", "TypeError"}
      [] c \in {"DatabaseError"} ->
             {"Error"}
      [] c \in {"OperationalError"} ->
             {"DatabaseError"}
      [] c \in {"IOException", "ConnectionException"} ->
             {"OperationalError"}

ExceptionClasses ==
    {"ArithmeticError", "AssertionError", "AttributeError", "BaseException",
     "BaseExceptionGroup", "BlockingIOError", "BrokenPipeError",
     "BufferError", "BytesWarning", "ChildProcessError",
     "ConnectionAbortedError", "builtins.ConnectionError",
     "ConnectionRefusedError", "ConnectionResetError", "DeprecationWarning",
     "EOFError", "EncodingWarning", "Exception", "ExceptionGroup",
     "FileExistsError", "FileNotFoundError", "FloatingPointError",
     "FutureWarning", "GeneratorExit", "ImportError", "ImportWarning",
     "IndentationError", "IndexError", "InterruptedError",
     "IsADirectoryError", "KeyError", "KeyboardInterrupt", "LookupError",
     "MemoryError", "ModuleNotFoundError", "NameError", "NotADirectoryError",
     "NotImplementedError", "OSError", "OverflowError",
     "PendingDeprecationWarning", "PermissionError", "ProcessLookupError",
     "RecursionError", "ReferenceError", "ResourceWarning", "RuntimeError",
     "RuntimeWarning", "StopAsyncIteration", "StopIteration", "SyntaxError",
     "SyntaxWarning", "SystemError", "SystemExit", "TabError",
     "TimeoutError", "TypeError", "UnboundLocalError", "UnicodeDecodeError",
     "UnicodeEncodeError", "UnicodeError", "UnicodeTranslateError",
     "UnicodeWarning", "UserWarning", "ValueError", "Warning",
     "ZeroDivisionError", "CancelledError", "json.JSONDecodeError",
     "urllib3.HTTPError", "RequestException", "InvalidJSONError",
     "JSONDecodeError", "HTTPError", "ConnectionError", "ProxyError",
     "SSLError", "Timeout", "ConnectTimeout", "ReadTimeout", "URLRequired",
     "TooManyRedirects", "MissingSchema", "InvalidSchema", "InvalidURL",
     "InvalidHeader", "InvalidProxyURL", "ChunkedEncodingError",
     "ContentDecodingError", "StreamConsumedError", "RetryError",
     "UnrewindableBodyError", "EmptyDataError", "ParserError", "Error",
     "DatabaseError", "OperationalError", "IOException",
     "ConnectionException", "NFLverseConnectionError"}

\* issubclass(c, b): what "except b" tests of a raised exception of class c
RECURSIVE IsSubclass(_, _)
IsSubclass(c, b) == c = b \/ \E p \in Bases(c) : IsSubclass(p, b)

\* requests.RequestException and every subclass of it
RequestExceptions == {c \in ExceptionClasses : IsSubclass(c, "RequestException")}

\* response.raise_for_status(): HTTPError for a 4xx or 5xx status
RaiseForStatus(status) == IF 400 <= status /\ status < 600 THEN "HTTPError" ELSE "none"

\* the columns kept: "Pos" and the columns after the first that match the
\* player pattern, as positions in the flattened, renamed header
KeepCols(columns) ==
    LET flat == _flatten_columns(columns)
        renamed == [i \in DOMAIN flat |-> IF flat[i] = flat[1] THEN Str_Pos ELSE flat[i]]
    IN  <<1>> \o SelectSeqIdx([i \in DOMAIN renamed |-> i],
                              {i \in DOMAIN renamed : i > 1 /\ PlayerColumnMatch(renamed[i])})

\* df = df[keep_cols] with df["Pos"] = df["Pos"].astype(str).str.strip()
KeptFrame(table, keep) ==
    [r \in DOMAIN table.rows |->
        [idx |-> r - 1,
         Pos |-> Strip(Str(table.rows[r][1])),
         cells |-> [k \in 1..(Len(keep) - 1) |-> table.rows[r][keep[k + 1]]]]]

\* offense_df.melt(id_vars="Pos", ...): one entry per (player column, row),
\* column by column; slot_id is the 1-based rank of the player column
Melt(odf, nslots) ==
    Flatten([k \in 1..nslots |->
                [r \in DOMAIN odf |-> [Pos |-> odf[r].Pos, slot_id |-> Some(k),
                                       raw |-> odf[r].cells[k]]]])

\* dropna(subset=["raw"]), raw stripped, empty raw dropped
DropEmptyCells(long) ==
    LET present == SelectSeqIdx(long, {i \in DOMAIN long : long[i].raw # NaN})
        stripped == [i \in DOMAIN present |->
                        [present[i] EXCEPT !.raw = Strip(Str(present[i].raw))]]
    IN  SelectSeqIdx(stripped, {i \in DOMAIN stripped : stripped[i].raw # <<>>})

\* the player and position columns, then dropna(subset=["position"])
MapPositions(long) ==
    LET mapped == [i \in DOMAIN long |->
                      [player |-> _clean_name(long[i].raw),
                       position |-> _map_pos(long[i].Pos, long[i].slot_id)]]
    IN  SelectSeqIdx(mapped, {i \in DOMAIN mapped : mapped[i].position # NaN})

\* the subset of columns drop_duplicates compares
DedupKey(r) == <<r.position, r.player>>

\* drop_duplicates(subset=["position", "player"], keep="first")
DropDuplicates(rows) ==
    SelectSeqIdx(rows, {i \in DOMAIN rows :
                           \A j \in 1..(i-1) : DedupKey(rows[j]) # DedupKey(rows[i])})

\* team and status attached, duplicates dropped, the four columns selected
Assemble(t, long) ==
    LET full == [i \in DOMAIN long |->
                    [team |-> t, position |-> long[i].position,
                     player |-> long[i].player, status |-> ACT]]
    IN  [columns |-> _COLUMNS, rows |-> DropDuplicates(full)]

Returned(frame) == [raised |-> "none", frame |-> frame]
Raised(exc) == [raised |-> exc, frame |-> _empty_result]

\* the try/except around requests.get and raise_for_status
FetchError(pg) == IF pg.error # "none" THEN pg.error ELSE RaiseForStatus(pg.status)
\* except requests.RequestException
FetchCaught(exc) == IsSubclass(exc, "RequestException")

\* the try/except around pd.read_html: except ValueError
ParseCaught(exc) == IsSubclass(exc, "ValueError")

ourlads_scrape_team(t, pg) ==
    IF FetchError(pg) # "none"
    THEN (IF FetchCaught(FetchError(pg)) THEN Returned(_empty_result)
          ELSE Raised(FetchError(pg)))
    ELSE IF pg.parse # "ok"
    THEN (IF ParseCaught(pg.parse) THEN Returned(_empty_result) ELSE Raised(pg.parse))
    ELSE IF pg.tables = <<>> THEN Returned(_empty_result)
    ELSE LET table == pg.tables[1]
         IN  IF table.rows = <<>> \/ table.columns = <<>> THEN Returned(_empty_result)
             ELSE LET keep == KeepCols(table.columns)
                  IN  IF Len(keep) <= 1 THEN Returned(_empty_result)
                      ELSE LET block == OffenseBlock(KeptFrame(table, keep))
                           IN  IF block = <<>> THEN Returned(_empty_result)
                               ELSE LET cells == DropEmptyCells(Melt(block, Len(keep) - 1))
                                    IN  IF cells = <<>> THEN Returned(_empty_result)
                                        ELSE LET long_df == MapPositions(cells)
                                             IN  IF long_df = <<>> THEN Returned(_empty_result)
                                                 ELSE Returned(Assemble(t, long_df))

----------------------------------------------------------------------------
(* Bounds and the values the variables of an operation hold while another   *)
(* operation is under study                                                 *)

MaxNameLen == 4
MaxSlot == 7
MaxRows == 3
MaxSplitRows == 4

SeqsUpTo(S, n) == UNION {[1..k -> S] : k \in 0..n}

NotCalled == [raised |-> "pending", frame |-> _empty_result]
NoPage == [error |-> "none", status |-> 200, parse |-> "ok", tables |-> <<>>]

IdleClean == raw = <<>> /\ cleaned = <<>>
IdleMap == row_pos = <<>> /\ slot_idx = None /\ position = NaN
IdleScrape == team = <<>> /\ page = NoPage /\ scraped = NotCalled
IdleSplit == df = <<>> /\ offense_df = <<>>
IdleRead ==
    /\ teams = <<>> /\ fetched = <<>> /\ frames = <<>>
    /\ out = _empty_result /\ override = <<>> /\ result = _empty_result
IdleConn == env = <<>> /\ call = <<>> /\ conn = <<>>

----------------------------------------------------------------------------
(* _clean_name applied to a raw cell, and again to what it returned *)

NameChars == {"a", ",", " ", "1", "(", ")"}
RawNames == SeqsUpTo(NameChars, MaxNameLen)

InitClean ==
    /\ pc = "clean"
    /\ raw \in RawNames
    /\ cleaned = <<>>
    /\ IdleMap /\ IdleScrape /\ IdleSplit /\ IdleRead /\ IdleConn

CleanName ==
    /\ pc = "clean"
    /\ Len(cleaned) < 2
    /\ cleaned' = Append(cleaned,
                         _clean_name(IF cleaned = <<>> THEN raw ELSE cleaned[Len(cleaned)]))
    /\ UNCHANGED <<pc, raw, varsMap, varsScrape, varsSplit, varsRead, varsConn>>

NextClean == CleanName

SpecClean == InitClean /\ [][NextClean]_vars

----------------------------------------------------------------------------
(* _map_pos applied to a label and a slot index *)

PosLabels ==
    {QB, RB, FB, TE, WR, LWR, RWR, SWR, WR_SLOT, SLOT,
     <<"q","b">>, <<"R","b">>, <<"t","e">>, <<"l","w","r">>, <<"S","l","o","t">>,
     <<"w","r","-","s","l","o","t">>,
     <<"K">>, <<"L","T">>, <<"W","R","1">>, <<" ","R","B">>, Str_OFFENSE, Str_nan, <<>>}

InitMap ==
    /\ pc = "map"
    /\ row_pos \in PosLabels
    /\ slot_idx \in {None} \cup {Some(n) : n \in 1..MaxSlot}
    /\ position = NaN
    /\ IdleClean /\ IdleScrape /\ IdleSplit /\ IdleRead /\ IdleConn

MapPos ==
    /\ pc = "map"
    /\ position' = _map_pos(row_pos, slot_idx)
    /\ pc' = "mapped"
    /\ UNCHANGED <<row_pos, slot_idx, varsClean, varsScrape, varsSplit, varsRead, varsConn>>

NextMap == MapPos

SpecMap == InitMap /\ [][NextMap]_vars

----------------------------------------------------------------------------
(* Claims about _clean_name and _map_pos *)

\* C10: name cleaning is idempotent: cleaning the value the cleaner returned
\* gives that value back, for every raw cell string.
C10_CleanNameIdempotent ==
    (pc = "clean" /\ Len(cleaned) = 2) => cleaned[2] = cleaned[1]

\* The mapping table as the specification words it
CanonicalCodes == {QB, RB1, RB2, TE1, TE2, WR1, WR2, WR3, WR4, WR5, SLOT, FB}
WideReceiverDigits == <<"1", "2", "3", "4", "5">>
MappingTable(label, n) ==
    LET u == Upper(label)
    IN  CASE u \in {<<"Q","B">>, <<"F","B">>} -> u
          [] u = <<"R","B">> -> IF n = 1 THEN <<"R","B","1">> ELSE <<"R","B","2">>
          [] u = <<"T","E">> -> IF n = 1 THEN <<"T","E","1">> ELSE <<"T","E","2">>
          [] u \in {<<"W","R">>, <<"L","W","R">>, <<"R","W","R">>} ->
                 IF n <= 5 THEN <<"W","R", WideReceiverDigits[n]>> ELSE NaN
          [] u \in {<<"S","W","R">>, <<"W","R","-","S","L","O","T">>, <<"S","L","O","T">>} ->
                 IF n = 1 THEN <<"S","L","O","T">> ELSE NaN
          [] OTHER -> NaN

\* C6: for every label and every 1-based slot index, _map_pos returns what the
\* mapping table gives for the upper-cased label, and every code it returns
\* is a canonical position code.
C6_MapPosMatchesTable ==
    (pc = "mapped" /\ slot_idx # None) =>
        /\ position = MappingTable(row_pos, TheInt(slot_idx))
        /\ position \in CanonicalCodes \cup {NaN}

\* a mixed-case RB label at slot 3 was mapped to RB2
C6_Witness ==
    /\ pc = "mapped"
    /\ row_pos = <<"R","b">>
    /\ slot_idx = Some(3)
    /\ position = RB2

----------------------------------------------------------------------------
(* The section splitter applied to a frame *)

SplitLabels == {<<"O","f","f","e","n","s","e">>, <<"D","E","F","E","N","S","E">>, <<"Q","B">>, <<"S","p","e","c","i","a","l"," ","T","e","a","m","s">>, <<>>}

\* the frame whose Pos column is labels, with one player column
SplitFrame(labels) ==
    [i \in DOMAIN labels |-> [idx |-> i - 1, Pos |-> labels[i], cells |-> <<<<"a">>>>]]

InitSplit ==
    /\ pc = "split"
    /\ df \in {SplitFrame(labels) : labels \in SeqsUpTo(SplitLabels, MaxSplitRows)}
    /\ offense_df = <<>>
    /\ IdleClean /\ IdleMap /\ IdleScrape /\ IdleRead /\ IdleConn

SplitSections ==
    /\ pc = "split"
    /\ offense_df' = OffenseBlock(df)
    /\ pc' = "kept"
    /\ UNCHANGED <<df, varsClean, varsMap, varsScrape, varsRead, varsConn>>

NextSplit == SplitSections

SpecSplit == InitSplit /\ [][NextSplit]_vars

----------------------------------------------------------------------------
(* ourlads_scrape_team applied to one team and one page *)

\* the two-level header of the Ourlads table as read_html returns it
HeaderMulti ==
    <<[tuple |-> TRUE, parts |-> <<<<"P","o","s">>, <<"U","n","n","a","m","e","d",":"," ","0","_","l","e","v","e","l","_","1">>>>],
      [tuple |-> TRUE, parts |-> <<<<"N","o">>, <<"P","l","a","y","e","r"," ","1">>>>],
      [tuple |-> TRUE, parts |-> <<<<"N","o">>, <<"P","l","a","y","e","r"," ","2">>>>]>>
\* a one-level header with a column that is no player column
HeaderFlat ==
    <<[tuple |-> FALSE, parts |-> <<<<"P","o","s","i","t","i","o","n">>>>],
      [tuple |-> FALSE, parts |-> <<<<"N","o","t","e","s">>>>],
      [tuple |-> FALSE, parts |-> <<<<" ","P","L","A","Y","E","R"," ","1">>>>]>>
\* a header without any player column
HeaderNoPlayer ==
    <<[tuple |-> FALSE, parts |-> <<<<"P","o","s">>>>],
      [tuple |-> FALSE, parts |-> <<<<"N","o">>>>],
      [tuple |-> FALSE, parts |-> <<<<"N","a","m","e">>>>]>>
Headers == {HeaderMulti, HeaderFlat, HeaderNoPlayer}

\* table rows: the position cell and two further cells
ScrapeRows ==
    {<<<<"O","f","f","e","n","s","e">>, NaN, NaN>>,
     <<<<"D","e","f","e","n","s","e">>, NaN, NaN>>,
     <<<<"Q","B">>, <<"c",","," ","d"," ","2","S">>, NaN>>,
     <<<<"W","R">>, <<"a">>, <<"b">>>>,
     <<<<"L","W","R">>, <<"a"," ","1">>, <<"a">>>>,
     <<<<"K">>, <<"k">>, NaN>>,
     <<<<"R","B">>, NaN, <<" ">>>>,
     <<NaN, <<"a">>, NaN>>,
     <<<<"S","p","e","c","i","a","l"," ","T","e","a","m","s">>, <<"k">>, <<"k">>>>}

OkPage(tables) == [error |-> "none", status |-> 200, parse |-> "ok", tables |-> tables]

TablePages ==
    {OkPage(<<[columns |-> h, rows |-> r]>>) : h \in Headers, r \in SeqsUpTo(ScrapeRows, MaxRows)}

\* the one-row table that gives two wide receivers
OneTable == <<[columns |-> HeaderMulti, rows |-> <<<<<<"W","R">>, <<"a">>, <<"b">>>>>>]>>

\* requests.get raising each kind of request exception
ErrorPages ==
    {[error |-> e, status |-> 200, parse |-> "ok", tables |-> <<>>] : e \in RequestExceptions}

\* a response with a status other than 200, its body with or without a table
StatusPages ==
    {[error |-> "none", status |-> s, parse |-> "ok", tables |-> t] :
        s \in {204, 300, 404, 500}, t \in {<<>>, OneTable}}

\* pd.read_html raising ValueError or a subclass of it
ParseErrors == {"ValueError", "UnicodeDecodeError", "EmptyDataError"}

FailPages ==
    ErrorPages \cup StatusPages \cup
    {[error |-> "none", status |-> 200, parse |-> e, tables |-> <<>>] : e \in ParseErrors}
    \cup {OkPage(<<>>),
     OkPage(<<[columns |-> HeaderMulti, rows |-> <<>>]>> \o OneTable)}

Pages == TablePages \cup FailPages

ScrapeTeams == {<<"b","u","f">>, <<"k","c">>}

InitScrape ==
    /\ pc = "scrape"
    /\ team \in ScrapeTeams
    /\ page \in Pages
    /\ scraped = NotCalled
    /\ IdleClean /\ IdleMap /\ IdleSplit /\ IdleRead /\ IdleConn

ScrapeTeam ==
    /\ pc = "scrape"
    /\ scraped' = ourlads_scrape_team(team, page)
    /\ pc' = "scraped"
    /\ UNCHANGED <<team, page, varsClean, varsMap, varsSplit, varsRead, varsConn>>

NextScrape == ScrapeTeam

SpecScrape == InitScrape /\ [][NextScrape]_vars

----------------------------------------------------------------------------
(* read_starters_ourlads.  The override file is what Path.exists and        *)
(* pd.read_csv give: whether a path is configured, whether it exists, the   *)
(* header, and the rows as functions from column name to cell.              *)

\* the frames concatenated last team first
ConcatFrames_Reversed(fs) ==
    IF fs # <<>>
    THEN [columns |-> _COLUMNS,
          rows |-> Flatten([i \in DOMAIN fs |-> fs[Len(fs) + 1 - i].rows])]
    ELSE _empty_result

\* pd.concat(frames, ignore_index=True), or the empty result without frames
ConcatFrames(fs) ==
    IF fs # <<>>
    THEN [columns |-> _COLUMNS, rows |-> Flatten([i \in DOMAIN fs |-> fs[i].rows])]
    ELSE _empty_result

\* if "status" not in overrides.columns: overrides["status"] = "ACT"
WithStatus(ov) ==
    IF "status" \notin Range(ov.columns)
    THEN [ov EXCEPT !.columns = Append(@, "status"),
                    !.rows = [i \in DOMAIN @ |->
                                 [c \in DOMAIN @[i] \cup {"status"} |->
                                     IF c = "status" THEN ACT ELSE @[i][c]]]]
    ELSE ov

\* the known columns selected, a missing column filled ("" or "ACT"), and the
\* four columns put in order
NormaliseOverrides(ov) ==
    LET ws == WithStatus(ov)
        Cell(r, column) ==
            IF column \in Range(ws.columns) THEN r[column]
            ELSE IF column # "status" THEN <<>> ELSE ACT
    IN  [i \in DOMAIN ws.rows |->
            [team |-> Cell(ws.rows[i], "team"), position |-> Cell(ws.rows[i], "position"),
             player |-> Cell(ws.rows[i], "player"), status |-> Cell(ws.rows[i], "status")]]

\* a merge joined on "position" alone
MergeKey_PositionOnly(r) == <<r.position>>

\* the columns the left merge joins on
MergeKey(r) == <<r.team, r.position>>

\* out.merge(keys, on=["team", "position"], how="left", indicator=True) and the
\* rows marked left_only
LeftOnly(rows, overrides) ==
    LET keys == {MergeKey(overrides[i]) : i \in DOMAIN overrides}
    IN  SelectSeqIdx(rows, {i \in DOMAIN rows : MergeKey(rows[i]) \notin keys})

\* the override block of read_starters_ourlads, down to the return
ApplyOverride(o, ov) ==
    IF ~ov.configured \/ ~ov.exists THEN o
    ELSE IF ov.rows = <<>> \/ ov.columns = <<>> THEN o
    ELSE LET overrides == NormaliseOverrides(ov)
             kept == IF o.rows # <<>> THEN LeftOnly(o.rows, overrides) ELSE o.rows
         IN  IF kept = <<>> THEN [columns |-> _COLUMNS, rows |-> overrides]
             ELSE [columns |-> _COLUMNS, rows |-> kept \o overrides]

MaxTeams == 2
MaxOverrideRows == 2

ReadTeams == {<<"a">>, <<"b">>}

\* the pages a team's GET may be answered with: an HTTP error, and two tables
ReadPages ==
    {[error |-> "none", status |-> 404, parse |-> "ok", tables |-> <<>>],
     OkPage(<<[columns |-> HeaderMulti,
               rows |-> << <<WR, <<"a">>, <<"b">>>> >>]>>),
     OkPage(<<[columns |-> HeaderMulti,
               rows |-> << <<QB, <<"c", ",", " ", "d", " ", "2", "S">>, NaN>>,
                           <<LWR, <<"a", " ", "1">>, <<"a">>>> >>]>>)}

OverrideHeaders ==
    {<<"team", "position", "player">>,
     <<"team", "position", "player", "status">>,
     <<"position", "team", "note">>}

\* the cells a column of the override file may hold
OverrideCells(column) ==
    CASE column = "team" -> ReadTeams
      [] column = "position" -> {WR1, WR2}
      [] column = "player" -> {<<"o">>}
      [] column = "status" -> {NaN, <<"I", "R">>}
      [] OTHER -> {<<"x">>}

OverrideRows(header) ==
    {r \in [Range(header) -> UNION {OverrideCells(c) : c \in Range(header)}] :
        \A c \in Range(header) : r[c] \in OverrideCells(c)}

OverrideInputs ==
    {[configured |-> FALSE, exists |-> FALSE, columns |-> <<>>, rows |-> <<>>],
     [configured |-> TRUE, exists |-> FALSE, columns |-> <<>>, rows |-> <<>>]}
    \cup UNION {{[configured |-> TRUE, exists |-> TRUE, columns |-> h, rows |-> rs] :
                     rs \in SeqsUpTo(OverrideRows(h), MaxOverrideRows)} : h \in OverrideHeaders}

NoOverride == [configured |-> FALSE, exists |-> FALSE, columns |-> <<>>, rows |-> <<>>]

InitRead ==
    /\ pc = "teams"
    /\ teams \in SeqsUpTo(ReadTeams, MaxTeams)
    /\ fetched = <<>>
    /\ frames = <<>>
    /\ out = _empty_result
    /\ override = NoOverride
    /\ result = _empty_result
    /\ IdleClean /\ IdleMap /\ IdleScrape /\ IdleSplit /\ IdleConn

\* one turn of [ourlads_scrape_team(team) for team in teams]
ReadScrapeTeam ==
    /\ pc = "teams"
    /\ Len(frames) < Len(teams)
    /\ \E pg \in ReadPages :
           LET t == teams[Len(frames) + 1]
               r == ourlads_scrape_team(t, pg)
           IN  /\ fetched' = Append(fetched, _ourlads_url(t))
               /\ IF r.raised = "none"
                  THEN frames' = Append(frames, r.frame) /\ pc' = pc
                  ELSE frames' = frames /\ pc' = "raised"
    /\ UNCHANGED <<teams, out, override, result,
                   varsClean, varsMap, varsScrape, varsSplit, varsConn>>

\* the comprehension is exhausted: the frames are concatenated
ReadConcat ==
    /\ pc = "teams"
    /\ Len(frames) = Len(teams)
    /\ out' = ConcatFrames(frames)
    /\ pc' = "override"
    /\ UNCHANGED <<teams, fetched, frames, override, result,
                   varsClean, varsMap, varsScrape, varsSplit, varsConn>>

\* the override file is looked up, read and merged; the frame is returned
ReadOverride ==
    /\ pc = "override"
    /\ \E ov \in OverrideInputs :
           /\ override' = ov
           /\ result' = ApplyOverride(out, ov)
    /\ pc' = "done"
    /\ UNCHANGED <<teams, fetched, frames, out,
                   varsClean, varsMap, varsScrape, varsSplit, varsConn>>

NextRead == ReadScrapeTeam \/ ReadConcat \/ ReadOverride

SpecRead == InitRead /\ [][NextRead]_vars

----------------------------------------------------------------------------
(* nflverse.py: _normalise_path, connect, nflverse_connection *)

DEFAULT_DATABASE_PATH == <<"/","n","f","l","v","e","r","s","e">>
Str_memory == <<":","m","e","m","o","r","y",":">>

\* what the process environment gives os.path: $HOME and os.getcwd()
HomeDir == <<"/","r","o","o","t">>
WorkDir == <<"/","w">>

\* s.split(sep) for a one-character separator
RECURSIVE Split(_, _)
Split(s, sep) ==
    IF \E i \in DOMAIN s : s[i] = sep
    THEN LET c == Min({i \in DOMAIN s : s[i] = sep})
         IN  <<Prefix(s, c - 1)>> \o Split(Suffix(s, c + 1), sep)
    ELSE <<s>>

\* the password database: login name and home directory
Passwd ==
    {[name |-> <<"r","o","o","t">>, dir |-> <<"/","r","o","o","t">>],
     [name |-> <<"b","i","n">>, dir |-> <<"/","b","i","n">>]}

\* s.rstrip("/")
RECURSIVE RStripSep(_)
RStripSep(s) ==
    IF s # <<>> /\ s[Len(s)] = "/" THEN RStripSep(Prefix(s, Len(s) - 1)) ELSE s

\* os.path.expanduser: "~" up to the first "/" becomes $HOME, "~name" the home
\* directory of name in the password database; an unknown name leaves the
\* path as it is
ExpandUser(p) ==
    IF ~StartsWith(p, <<"~">>) THEN p
    ELSE LET seps == {k \in 2..Len(p) : p[k] = "/"}
             i == IF seps = {} THEN Len(p) + 1 ELSE Min(seps)
             name == SubSeq(p, 2, i - 1)
             known == {e \in Passwd : e.name = name}
         IN  IF i > 2 /\ known = {} THEN p
             ELSE LET userhome == IF i = 2 THEN HomeDir
                                  ELSE (CHOOSE e \in known : TRUE).dir
                      expanded == RStripSep(userhome) \o Suffix(p, i)
                  IN  IF expanded = <<>> THEN <<"/">> ELSE expanded

\* the components of an absolute path with "", "." dropped and ".." applied
RECURSIVE Components(_, _)
Components(parts, acc) ==
    IF parts = <<>> THEN acc
    ELSE IF parts[1] \in {<<>>, <<".">>} THEN Components(Tail(parts), acc)
    ELSE IF parts[1] = <<".", ".">>
         THEN Components(Tail(parts), IF acc = <<>> THEN acc ELSE Prefix(acc, Len(acc) - 1))
    ELSE Components(Tail(parts), Append(acc, parts[1]))

\* os.path.normpath of an absolute path: exactly two leading slashes are
\* kept, one or three and more become one
NormPath(full) ==
    LET initial_slashes ==
            IF StartsWith(full, <<"/","/">>) /\ ~StartsWith(full, <<"/","/","/">>)
            THEN <<"/","/">> ELSE <<"/">>
    IN  initial_slashes \o Join(Components(Split(full, "/"), <<>>), <<"/">>)

\* os.path.abspath: joined to the working directory unless absolute, normalised
AbsPath(p) ==
    LET full == IF StartsWith(p, <<"/">>) THEN p
                ELSE IF WorkDir[Len(WorkDir)] = "/" THEN WorkDir \o p
                ELSE WorkDir \o <<"/">> \o p
    IN  NormPath(full)

_normalise_path(database_path) ==
    LET path == IF database_path = NaN THEN DEFAULT_DATABASE_PATH ELSE database_path
    IN  IF path = <<>> THEN [raised |-> "ValueError", path |-> path]
        ELSE IF path # Str_memory
             THEN [raised |-> "none", path |-> AbsPath(ExpandUser(path))]
             ELSE [raised |-> "none", path |-> path]

NoHandle == [path |-> <<>>, read_only |-> FALSE]

\* "except Exception" around duckdb.connect
OpenCaught(exc) == IsSubclass(exc, "Exception")

\* connect(database_path, read_only=...) in an environment e: duckdb imported
\* or not, the normalised path on disk or not, duckdb.connect failing or not
connect(c, e) ==
    IF ~e.duckdb THEN [raised |-> "NFLverseConnectionError", handle |-> NoHandle]
    ELSE LET np == _normalise_path(c.database_path)
         IN  IF np.raised # "none" THEN [raised |-> np.raised, handle |-> NoHandle]
             ELSE IF c.read_only /\ np.path # Str_memory /\ ~e.exists
             THEN [raised |-> "NFLverseConnectionError", handle |-> NoHandle]
             ELSE IF e.open # "ok"
             THEN [raised |-> IF OpenCaught(e.open) THEN "NFLverseConnectionError" ELSE e.open,
                   handle |-> NoHandle]
             ELSE [raised |-> "none",
                   handle |-> [path |-> np.path, read_only |-> c.read_only]]

\* what duckdb.connect does: returns a connection or raises
OpenOutcomes == {"ok", "IOException", "RuntimeError", "PermissionError", "ValueError"}

DatabasePaths ==
    {NaN, <<>>, Str_memory, DEFAULT_DATABASE_PATH, <<"d">>, <<"~","/","d">>, <<".","/","x","/",".",".","/","d">>,
     <<"~">>, <<"~","r","o","o","t","/","d">>, <<"~","x","/","d">>, <<"/","/","d">>,
     <<"/","/","/","d","/">>}

InitConn ==
    /\ pc = "start"
    /\ env \in [duckdb : BOOLEAN, exists : BOOLEAN, open : OpenOutcomes]
    /\ call \in [database_path : DatabasePaths, read_only : BOOLEAN]
    /\ conn = [handle |-> NoHandle, opened |-> 0, closed |-> 0,
               entered |-> FALSE, raised |-> "none"]
    /\ IdleClean /\ IdleMap /\ IdleScrape /\ IdleSplit /\ IdleRead

\* a direct call of connect
Connect ==
    /\ pc = "start"
    /\ LET r == connect(call, env)
       IN  /\ conn' = [conn EXCEPT !.handle = r.handle, !.raised = r.raised,
                                   !.opened = IF r.raised = "none" THEN 1 ELSE 0]
           /\ pc' = IF r.raised = "none" THEN "connected" ELSE "connect_failed"
    /\ UNCHANGED <<env, call, varsClean, varsMap, varsScrape, varsSplit, varsRead>>

\* "with nflverse_connection(...)": connect is called; the body is entered
\* only when it returned a connection
CmEnter ==
    /\ pc = "start"
    /\ LET r == connect(call, env)
       IN  /\ conn' = [conn EXCEPT !.handle = r.handle, !.raised = r.raised,
                                   !.opened = IF r.raised = "none" THEN 1 ELSE 0,
                                   !.entered = (r.raised = "none")]
           /\ pc' = IF r.raised = "none" THEN "body" ELSE "cm_failed"
    /\ UNCHANGED <<env, call, varsClean, varsMap, varsScrape, varsSplit, varsRead>>

\* the body of the with statement completes: the finally clause closes
CmBodyReturns ==
    /\ pc = "body"
    /\ conn' = [conn EXCEPT !.closed = @ + 1]
    /\ pc' = "cm_done"
    /\ UNCHANGED <<env, call, varsClean, varsMap, varsScrape, varsSplit, varsRead>>

\* a generator with the yield outside any try/finally: nothing closes
CmBodyRaises_NoFinally ==
    /\ pc = "body"
    /\ conn' = [conn EXCEPT !.raised = "BodyError"]
    /\ pc' = "cm_raised"
    /\ UNCHANGED <<env, call, varsClean, varsMap, varsScrape, varsSplit, varsRead>>

\* the body of the with statement raises: the exception is thrown into the
\* generator at the yield, the finally clause closes, the exception goes on
CmBodyRaises ==
    /\ pc = "body"
    /\ conn' = [conn EXCEPT !.closed = @ + 1, !.raised = "BodyError"]
    /\ pc' = "cm_raised"
    /\ UNCHANGED <<env, call, varsClean, varsMap, varsScrape, varsSplit, varsRead>>

NextConn == Connect \/ CmEnter \/ CmBodyReturns \/ CmBodyRaises

SpecConn == InitConn /\ [][NextConn]_vars

----------------------------------------------------------------------------
(* The whole module: any one of the operations above, from its inputs *)

Init == InitClean \/ InitMap \/ InitSplit \/ InitScrape \/ InitRead \/ InitConn

Next == NextClean \/ NextMap \/ NextSplit \/ NextScrape \/ NextRead \/ NextConn

Spec == Init /\ [][Next]_vars

----------------------------------------------------------------------------
(* Claims about the section splitter and ourlads_scrape_team *)

\* The offensive block as the specification words it: after the first OFFENSE
\* marker up to the next DEFENSE marker after it (or the end of the table);
\* without OFFENSE, before the first DEFENSE marker; without both, everything.
ClaimedSlice(d) ==
    LET off == {i \in DOMAIN d : Upper(d[i].Pos) = Str_OFFENSE}
        def == {i \in DOMAIN d : Upper(d[i].Pos) = Str_DEFENSE}
    IN  IF off # {}
        THEN LET s == Min(off)
                 later == {i \in def : i > s}
                 e == IF later = {} THEN Len(d) + 1 ELSE Min(later)
             IN  SubSeq(d, s + 1, e - 1)
        ELSE IF def # {} THEN SubSeq(d, 1, Min(def) - 1)
        ELSE d

\* C9: for every arrangement of marker rows the splitter keeps exactly the
\* offensive block (between the first OFFENSE marker and the next DEFENSE
\* marker after it, or to the end; before DEFENSE when there is no OFFENSE; the
\* whole table when there is neither), and no marker or section-label row
\* reaches the output.
C9_SplitterKeepsOffensiveBlock ==
    pc = "kept" =>
        /\ offense_df = DropSectionRows(ClaimedSlice(df))
        /\ \A i \in DOMAIN offense_df :
               /\ Upper(offense_df[i].Pos) \notin {Str_OFFENSE, Str_DEFENSE}
               /\ ~SectionLabel(offense_df[i].Pos)

\* The expected failures of one scrape, stated on the page
FetchFails(pg) == pg.error # "none" \/ ~(200 <= pg.status /\ pg.status < 300)
NoParseableTable(pg) == pg.parse # "ok" \/ pg.tables = <<>>
FirstTableEmpty(pg) == pg.tables[1].rows = <<>>
NoPlayerColumn(pg) ==
    LET flat == _flatten_columns(pg.tables[1].columns)
    IN  \A i \in 2..Len(flat) : ~PlayerColumnMatch(flat[i])
OffensiveBlockEmpty(pg) ==
    OffenseBlock(KeptFrame(pg.tables[1], KeepCols(pg.tables[1].columns))) = <<>>
EveryCellEmpty(pg) ==
    LET keep == KeepCols(pg.tables[1].columns)
    IN  \A r \in DOMAIN pg.tables[1].rows :
            \A k \in 2..Len(keep) :
                \/ pg.tables[1].rows[r][keep[k]] = NaN
                \/ Strip(pg.tables[1].rows[r][keep[k]]) = <<>>
NoPositionMaps(pg) ==
    \A r \in DOMAIN pg.tables[1].rows :
        \A k \in 1..Len(pg.tables[1].columns) :
            _map_pos(Strip(Str(pg.tables[1].rows[r][1])), Some(k)) = NaN

ExpectedFailure(pg) ==
    \/ FetchFails(pg)
    \/ NoParseableTable(pg)
    \/ FirstTableEmpty(pg)
    \/ NoPlayerColumn(pg)
    \/ OffensiveBlockEmpty(pg)
    \/ EveryCellEmpty(pg)
    \/ NoPositionMaps(pg)

\* C1: ourlads_scrape_team never raises, and on a failed GET, a page without a
\* parseable table, an empty first table, no player column, an empty offensive
\* block, only empty cells or no mappable position it returns the four
\* columns team, position, player, status and no rows.
C1_ScrapeNeverRaises ==
    pc = "scraped" =>
        /\ scraped.raised = "none"
        /\ ExpectedFailure(page) =>
               /\ scraped.frame.columns = <<"team", "position", "player", "status">>
               /\ scraped.frame.rows = <<>>

\* C3: within the output of one ourlads_scrape_team call no two rows carry the
\* same (team, position) pair.
C3_TeamPositionUnique ==
    pc = "scraped" =>
        \A i, j \in DOMAIN scraped.frame.rows :
            i # j => <<scraped.frame.rows[i].team, scraped.frame.rows[i].position>>
                     # <<scraped.frame.rows[j].team, scraped.frame.rows[j].position>>

----------------------------------------------------------------------------
(* Claims about read_starters_ourlads *)

\* the override file exists and has at least one row
OverrideActive == override.configured /\ override.exists /\ override.rows # <<>>

\* the cell of row k of the override file under a column, "" without the column
FileCell(k, column) ==
    IF column \in Range(override.columns) THEN override.rows[k][column] ELSE <<>>

OverrideKeys == {<<FileCell(k, "team"), FileCell(k, "position")>> : k \in DOMAIN override.rows}

\* the scraped rows whose (team, position) is no override row's, in order
Survivors ==
    SelectSeqIdx(out.rows,
                 {i \in DOMAIN out.rows : <<out.rows[i].team, out.rows[i].position>> \notin OverrideKeys})

\* C2: when the override file exists and has a row, the result is the scraped
\* rows whose (team, position) key is no override row's key, in scraped order,
\* followed by every override row in file order.
C2_OverrideExcludesByKeyThenAppends ==
    (pc = "done" /\ OverrideActive) =>
        /\ Len(result.rows) = Len(Survivors) + Len(override.rows)
        /\ SubSeq(result.rows, 1, Len(Survivors)) = Survivors
        /\ \A k \in DOMAIN override.rows :
               LET r == result.rows[Len(Survivors) + k]
               IN  /\ r.team = FileCell(k, "team")
                   /\ r.position = FileCell(k, "position")
                   /\ r.player = FileCell(k, "player")

\* an override row displaced a scraped row while another scraped row of the
\* same position, of the other team, survived
C2_Witness ==
    /\ pc = "done" /\ OverrideActive
    /\ \E i, j \in DOMAIN out.rows :
           /\ <<out.rows[i].team, out.rows[i].position>> \in OverrideKeys
           /\ <<out.rows[j].team, out.rows[j].position>> \notin OverrideKeys
           /\ out.rows[i].position = out.rows[j].position
    /\ Len(result.rows) = Len(out.rows) - 1 + Len(override.rows)

\* C7: every record of the result that lacks an explicit status has status
\* "ACT": the scraped records, and an override row whose file has no status
\* column or whose status cell is blank.
C7_MissingStatusIsACT ==
    pc = "done" =>
        /\ \A i \in DOMAIN out.rows : out.rows[i].status = ACT
        /\ OverrideActive =>
               \A k \in DOMAIN override.rows :
                   ("status" \notin Range(override.columns) \/ override.rows[k]["status"] = NaN)
                       => result.rows[Len(result.rows) - Len(override.rows) + k].status = ACT

\* the number of rows the frames before frame i hold
RECURSIVE RowsBefore(_)
RowsBefore(i) == IF i <= 1 THEN 0 ELSE RowsBefore(i - 1) + Len(frames[i - 1].rows)

\* C8: each team is scraped exactly once, in the order given; in the
\* concatenated frame the rows of an earlier team precede those of a later
\* team; a team with the empty result adds no row and stops nothing.
C8_TeamsScrapedOnceInOrder ==
    /\ pc \in {"teams", "override", "done"} =>
           /\ Len(fetched) = Len(frames)
           /\ Len(fetched) <= Len(teams)
           /\ \A i \in DOMAIN fetched : fetched[i] = _ourlads_url(teams[i])
           /\ \A i \in DOMAIN frames :
                  \A k \in DOMAIN frames[i].rows : frames[i].rows[k].team = teams[i]
    /\ pc \in {"override", "done"} =>
           /\ Len(frames) = Len(teams)
           /\ Len(out.rows) = RowsBefore(Len(frames) + 1)
           /\ \A i \in DOMAIN frames :
                  \A k \in DOMAIN frames[i].rows :
                      out.rows[RowsBefore(i) + k] = frames[i].rows[k]

\* two different teams were scraped, both gave rows, and the frames were
\* concatenated
C8_Witness ==
    /\ pc = "override"
    /\ Len(teams) = 2 /\ teams[1] # teams[2]
    /\ frames[1].rows # <<>> /\ frames[2].rows # <<>>
    /\ out.rows[1].team = teams[1]
    /\ out.rows[Len(out.rows)].team = teams[2]

----------------------------------------------------------------------------
(* Claims about connect and nflverse_connection *)

\* C4: every failure of connect (duckdb missing, empty path, read-only target
\* not on disk, the underlying open failing) is signalled with
\* NFLverseConnectionError and no other exception type.
C4_ConnectRaisesOnlyConnectionError ==
    pc \in {"connect_failed", "cm_failed"} => conn.raised = "NFLverseConnectionError"

\* C5: a scoped use opens at most one connection; once opened, the connection
\* is closed exactly once on every exit of the scope, also when the body
\* raises; when connect fails the body is never entered and nothing is closed.
C5_ScopedConnectionClosedOnce ==
    /\ conn.opened <= 1
    /\ conn.closed <= conn.opened
    /\ pc = "body" => (conn.opened = 1 /\ conn.closed = 0)
    /\ pc \in {"cm_done", "cm_raised"} =>
           (conn.opened = 1 /\ conn.closed = 1 /\ conn.entered)
    /\ pc = "cm_raised" => conn.raised = "BodyError"
    /\ pc = "cm_failed" => (~conn.entered /\ conn.opened = 0 /\ conn.closed = 0)

\* the body raised inside the scope and the connection was closed once
C5_Witness ==
    /\ pc = "cm_raised"
    /\ conn.raised = "BodyError"
    /\ conn.opened = 1
    /\ conn.closed = 1

====
